---- MODULE Spec2Model ----
(***************************************************************************)
(* Model of dials array_family/boost_python/flex_reflection_table.cc:      *)
(*   - the flag operations get_flags / set_flags / unset_flags on the      *)
(*     "flags" column of a reflection table,                               *)
(*   - make_from_observation_and_shoebox,                                  *)
(*   - compute_ray_intersections,                                          *)
(*   - get_digits of fonts_2d.h.                                           *)
(* The four parts do not interact; each has its own specification.         *)
(***************************************************************************)
EXTENDS Integers, Sequences, FiniteSets, TLC

VARIABLES
  flags,      \* the "flags" column of the table: one unsigned integer per row
  call,       \* the last flag operation: its arguments, outcome and result
  roundtrip,  \* observer: a set_flags and the unset_flags that follows it
  sequence,   \* observer: a run of set_flags / unset_flags calls with one flag
  made,       \* the last make_from_observation_and_shoebox call: o, s, outcome
  rayTable,   \* the table compute_ray_intersections reads: columns s1, panel
  detector,   \* the detector model: its panels, indexed from 0
  ray,        \* the last compute_ray_intersections call and what it returned
  nm,         \* get_digits: the number to decode
  decimal_point, \* the decimal-point character of the locale snprintf runs in
  asc_str,    \* get_digits: char asc_str[15], the formatted text
  dgt_num,    \* get_digits: the caller's buffer int dgt_num[15]
  err_cod,    \* get_digits: the status
  returned    \* get_digits has returned

flagVars == <<flags, call, roundtrip, sequence>>

makeVars == <<made>>

rayVars == <<rayTable, detector, ray>>

digitVars == <<nm, decimal_point, asc_str, dgt_num, err_cod, returned>>

vars == <<flagVars, makeVars, rayVars, digitVars>>

----------------------------------------------------------------------------
(* Bounds *)

MaxRows == 2      \* rows of a table
MaxPanels == 2    \* panels of a detector
MaxDigits == 7    \* significant decimal digits of a generated number
FlagBits == 6     \* modelled width of std::size_t, in bits

----------------------------------------------------------------------------
(* Unsigned integers of FlagBits bits and the operators &, | and ~ *)

Pow2(n) == 2 ^ n

AllBits == Pow2(FlagBits) - 1

\* the flag values the callers pass and the tables start with: no bit, one
\* bit, every bit
Values == {0, 1, AllBits}

RECURSIVE BitAnd(_, _)
BitAnd(a, b) ==
  IF a = 0 \/ b = 0 THEN 0
  ELSE (a % 2) * (b % 2) + 2 * BitAnd(a \div 2, b \div 2)

RECURSIVE BitOr(_, _)
BitOr(a, b) ==
  IF a = 0 THEN b
  ELSE IF b = 0 THEN a
  ELSE (IF a % 2 = 1 \/ b % 2 = 1 THEN 1 ELSE 0) + 2 * BitOr(a \div 2, b \div 2)

BitNot(a) == AllBits - a

----------------------------------------------------------------------------
(* The flag operations.  A table is represented by its "flags" column;     *)
(* nrows is the length of the column.  DIALS_ASSERT throws: ok = FALSE.    *)

nrows(self) == Len(self)

Masks(n) == [1 .. n -> BOOLEAN]

\* a mask may be shorter or longer than the table it is applied to
AllMasks == UNION {Masks(n) : n \in 0 .. MaxRows}

Tables == UNION {[1 .. n -> Values] : n \in 0 .. MaxRows}

get_flags_any_bit(self, value) ==
  [i \in 1 .. nrows(self) |-> BitAnd(self[i], value) # 0]

get_flags(self, value) ==
  [i \in 1 .. nrows(self) |-> BitAnd(self[i], value) = value]

set_flags_inverted_mask(self, mask, value) ==
  IF Len(mask) # nrows(self)
  THEN [ok |-> FALSE, flags |-> self]
  ELSE [ok |-> TRUE,
        flags |-> [i \in 1 .. Len(mask) |->
                     IF ~mask[i] THEN BitOr(self[i], value) ELSE self[i]]]

set_flags_unchecked(self, mask, value) ==
  [ok |-> TRUE,
   flags |-> [i \in 1 .. nrows(self) |->
                IF i <= Len(mask) /\ mask[i]
                THEN BitOr(self[i], value) ELSE self[i]]]

set_flags_assign(self, mask, value) ==
  IF Len(mask) # nrows(self)
  THEN [ok |-> FALSE, flags |-> self]
  ELSE [ok |-> TRUE,
        flags |-> [i \in 1 .. Len(mask) |->
                     IF mask[i] THEN value ELSE self[i]]]

set_flags(self, mask, value) ==
  IF Len(mask) # nrows(self)
  THEN [ok |-> FALSE, flags |-> self]
  ELSE [ok |-> TRUE,
        flags |-> [i \in 1 .. Len(mask) |->
                     IF mask[i] THEN BitOr(self[i], value) ELSE self[i]]]

unset_flags_and_value(self, mask, value) ==
  IF Len(mask) # nrows(self)
  THEN [ok |-> FALSE, flags |-> self]
  ELSE [ok |-> TRUE,
        flags |-> [i \in 1 .. Len(mask) |->
                     IF mask[i] THEN BitAnd(self[i], value) ELSE self[i]]]

unset_flags_all_rows(self, mask, value) ==
  IF Len(mask) # nrows(self)
  THEN [ok |-> FALSE, flags |-> self]
  ELSE [ok |-> TRUE,
        flags |-> [i \in 1 .. Len(mask) |-> BitAnd(self[i], BitNot(value))]]

unset_flags(self, mask, value) ==
  IF Len(mask) # nrows(self)
  THEN [ok |-> FALSE, flags |-> self]
  ELSE [ok |-> TRUE,
        flags |-> [i \in 1 .. Len(mask) |->
                     IF mask[i] THEN BitAnd(self[i], BitNot(value))
                     ELSE self[i]]]

NoCall ==
  [op |-> "none", mask |-> <<>>, value |-> 0, ok |-> TRUE,
   before |-> <<>>, result |-> <<>>]

NoRoundtrip ==
  [phase |-> "none", mask |-> <<>>, value |-> 0, original |-> <<>>]

\* no run of calls with one named flag is observed
NoSequence ==
  [flag |-> 0, original |-> <<>>, did_set |-> FALSE, did_unset |-> FALSE]

FlagIdle ==
  /\ flags = <<>>
  /\ call = NoCall
  /\ roundtrip = NoRoundtrip
  /\ sequence = NoSequence

FlagInit ==
  /\ flags \in Tables
  /\ call = NoCall
  /\ roundtrip = NoRoundtrip
  /\ sequence = NoSequence

GetFlags ==
  \E value \in Values :
    /\ call' = [op |-> "get_flags", mask |-> <<>>, value |-> value,
                ok |-> TRUE, before |-> flags,
                result |-> get_flags(flags, value)]
    /\ roundtrip' = NoRoundtrip
    /\ UNCHANGED <<flags, sequence, makeVars, rayVars, digitVars>>

SetFlags ==
  \E mask \in AllMasks, value \in Values :
    LET r == set_flags(flags, mask, value) IN
      /\ flags' = r.flags
      /\ call' = [op |-> "set_flags", mask |-> mask, value |-> value,
                  ok |-> r.ok, before |-> flags, result |-> <<>>]
      /\ roundtrip' = IF r.ok
                      THEN [phase |-> "set", mask |-> mask, value |-> value,
                            original |-> flags]
                      ELSE NoRoundtrip
      /\ UNCHANGED <<sequence, makeVars, rayVars, digitVars>>

UnsetFlags ==
  \E mask \in AllMasks, value \in Values :
    LET r == unset_flags(flags, mask, value) IN
      /\ flags' = r.flags
      /\ call' = [op |-> "unset_flags", mask |-> mask, value |-> value,
                  ok |-> r.ok, before |-> flags, result |-> <<>>]
      /\ roundtrip' = IF /\ r.ok
                         /\ roundtrip.phase = "set"
                         /\ roundtrip.mask = mask
                         /\ roundtrip.value = value
                      THEN [roundtrip EXCEPT !.phase = "unset"]
                      ELSE NoRoundtrip
      /\ UNCHANGED <<sequence, makeVars, rayVars, digitVars>>

----------------------------------------------------------------------------
(* The flags enum exported in the table's scope, and runs of set_flags and  *)
(* unset_flags calls that all pass the same named flag                      *)

Predicted == 1
Observed == 2
Indexed == 4
UsedInRefinement == 8
ReferenceSpot == 16
Integrated == 32

NamedFlags ==
  {Predicted, Observed, Indexed, UsedInRefinement, ReferenceSpot, Integrated}

\* the flags a row starts with: none, and two mixes of named flags
NamedStartValues ==
  {0, Predicted + Indexed + ReferenceSpot,
   Observed + UsedInRefinement + Integrated}

NamedStart ==
  /\ flags \in UNION {[1 .. n -> NamedStartValues] : n \in 0 .. MaxRows}
  /\ call = NoCall
  /\ roundtrip = NoRoundtrip
  /\ \E a \in NamedFlags :
       sequence = [flag |-> a, original |-> flags, did_set |-> FALSE,
                   did_unset |-> FALSE]

SetNamedFlag ==
  \E mask \in AllMasks :
    LET r == set_flags(flags, mask, sequence.flag) IN
      /\ flags' = r.flags
      /\ call' = [op |-> "set_flags", mask |-> mask, value |-> sequence.flag,
                  ok |-> r.ok, before |-> flags, result |-> <<>>]
      /\ sequence' = [sequence EXCEPT !.did_set = @ \/ r.flags # flags]
      /\ UNCHANGED <<roundtrip, makeVars, rayVars, digitVars>>

UnsetNamedFlag ==
  \E mask \in AllMasks :
    LET r == unset_flags(flags, mask, sequence.flag) IN
      /\ flags' = r.flags
      /\ call' = [op |-> "unset_flags", mask |-> mask, value |-> sequence.flag,
                  ok |-> r.ok, before |-> flags, result |-> <<>>]
      /\ sequence' = [sequence EXCEPT !.did_unset = @ \/ r.flags # flags]
      /\ UNCHANGED <<roundtrip, makeVars, rayVars, digitVars>>

----------------------------------------------------------------------------
(* make_from_observation_and_shoebox *)

PanelIds == {0, 1}

Tags == {1, 2}

\* an Observation: the fields the constructor reads; the numbers of one
\* record differ from each other and from those of the other records
Observation(p, t) ==
  [panel |-> p,
   centroid |-> [px |-> [position |-> <<10 * t + 1, 10 * t + 2, 10 * t + 3>>,
                         std_err_sq |-> <<10 * t + 4, 10 * t + 5, 10 * t + 6>>]],
   intensity |-> [observed |-> [value |-> 10 * t + 7, variance |-> 10 * t + 8],
                  corrected |-> [value |-> 10 * t + 9, variance |-> 10 * t + 10]]]

\* a Shoebox<double>: panel, bbox and the data, mask and background arrays
Shoebox(p, t) ==
  [panel |-> p,
   bbox |-> <<t, t + 2, t, t + 3, 0, t>>,
   data |-> 100 + t,
   mask |-> 200 + t,
   background |-> 300 + t]

Observations == {Observation(p, t) : p \in PanelIds, t \in Tags}

Shoeboxes == {Shoebox(p, t) : p \in PanelIds, t \in Tags}

SeqsUpTo(S, n) == UNION {[1 .. k -> S] : k \in 0 .. n}

\* a default-constructed Shoebox<>, the element of a fresh "shoebox" column
DefaultShoebox ==
  [panel |-> 0, bbox |-> <<0, 0, 0, 0, 0, 0>>, data |-> 0, mask |-> 0,
   background |-> 0]

\* T result(o.size()) and the nine columns result[...] creates
NewTable(n) ==
  [nrows |-> n,
   columns |->
     ("panel" :> [i \in 1 .. n |-> 0]) @@
     ("xyzobs.px.value" :> [i \in 1 .. n |-> <<0, 0, 0>>]) @@
     ("xyzobs.px.variance" :> [i \in 1 .. n |-> <<0, 0, 0>>]) @@
     ("intensity.raw.value" :> [i \in 1 .. n |-> 0]) @@
     ("intensity.raw.variance" :> [i \in 1 .. n |-> 0]) @@
     ("intensity.cor.value" :> [i \in 1 .. n |-> 0]) @@
     ("intensity.cor.variance" :> [i \in 1 .. n |-> 0]) @@
     ("bbox" :> [i \in 1 .. n |-> <<0, 0, 0, 0, 0, 0>>]) @@
     ("shoebox" :> [i \in 1 .. n |-> DefaultShoebox])]

CopyRow_cor_from_raw(result, o, s, i) ==
  [result EXCEPT
     !.columns["panel"][i] = o[i].panel,
     !.columns["xyzobs.px.value"][i] = o[i].centroid.px.position,
     !.columns["xyzobs.px.variance"][i] = o[i].centroid.px.std_err_sq,
     !.columns["intensity.raw.value"][i] = o[i].intensity.observed.value,
     !.columns["intensity.raw.variance"][i] = o[i].intensity.observed.variance,
     !.columns["intensity.cor.value"][i] = o[i].intensity.observed.value,
     !.columns["intensity.cor.variance"][i] = o[i].intensity.corrected.variance,
     !.columns["bbox"][i] = s[i].bbox,
     !.columns["shoebox"][i].bbox = s[i].bbox,
     !.columns["shoebox"][i].data = s[i].data,
     !.columns["shoebox"][i].mask = s[i].mask,
     !.columns["shoebox"][i].background = s[i].background]

\* the body of the copy loop for row i, after the panel check
CopyRow(result, o, s, i) ==
  [result EXCEPT
     !.columns["panel"][i] = o[i].panel,
     !.columns["xyzobs.px.value"][i] = o[i].centroid.px.position,
     !.columns["xyzobs.px.variance"][i] = o[i].centroid.px.std_err_sq,
     !.columns["intensity.raw.value"][i] = o[i].intensity.observed.value,
     !.columns["intensity.raw.variance"][i] = o[i].intensity.observed.variance,
     !.columns["intensity.cor.value"][i] = o[i].intensity.corrected.value,
     !.columns["intensity.cor.variance"][i] = o[i].intensity.corrected.variance,
     !.columns["bbox"][i] = s[i].bbox,
     !.columns["shoebox"][i].bbox = s[i].bbox,
     !.columns["shoebox"][i].data = s[i].data,
     !.columns["shoebox"][i].mask = s[i].mask,
     !.columns["shoebox"][i].background = s[i].background]

\* a DIALS_ASSERT that throws: the local table is dropped, nothing is returned
Thrown == [ok |-> FALSE, returned |-> {}]

RECURSIVE CopyRows_stop_at_mismatch(_, _, _, _)
CopyRows_stop_at_mismatch(result, o, s, i) ==
  IF i > result.nrows THEN [ok |-> TRUE, returned |-> {result}]
  ELSE IF o[i].panel # s[i].panel THEN [ok |-> TRUE, returned |-> {result}]
  ELSE CopyRows_stop_at_mismatch(CopyRow(result, o, s, i), o, s, i + 1)

\* the copy loop from row i on, and the return
RECURSIVE CopyRows(_, _, _, _)
CopyRows(result, o, s, i) ==
  IF i > result.nrows THEN [ok |-> TRUE, returned |-> {result}]
  ELSE IF o[i].panel # s[i].panel THEN Thrown
  ELSE CopyRows(CopyRow(result, o, s, i), o, s, i + 1)

make_from_observation_and_shoebox(o, s) ==
  IF Len(o) # Len(s) THEN Thrown
  ELSE CopyRows(NewTable(Len(o)), o, s, 1)

\* the arguments o and s of a call that has not run yet
NotMade(o, s) ==
  [called |-> FALSE, o |-> o, s |-> s, ok |-> FALSE, returned |-> {}]

MakeIdle == made = NotMade(<<>>, <<>>)

MakeStart ==
  \E o \in SeqsUpTo(Observations, MaxRows), s \in SeqsUpTo(Shoeboxes, MaxRows) :
    made = NotMade(o, s)

MakeFromObservationAndShoebox ==
  LET r == make_from_observation_and_shoebox(made.o, made.s) IN
    /\ made' = [made EXCEPT !.called = TRUE, !.ok = r.ok,
                            !.returned = r.returned]
    /\ UNCHANGED <<flagVars, rayVars, digitVars>>

----------------------------------------------------------------------------
(* compute_ray_intersections *)

\* the s1 vectors of the rows
S1Values == {<<1, 0, 2>>, <<0, 1, 3>>}

\* a detector of n panels; panel k is told apart by its geometry k
Detectors == {[k \in 1 .. n |-> k - 1] : n \in 1 .. MaxPanels}

\* a panel index of the "panel" column: in or out of a detector's range
PanelIndices == 0 .. MaxPanels

RayTables ==
  UNION {[s1 : [1 .. n -> S1Values], panel : [1 .. n -> PanelIndices]] :
           n \in 0 .. MaxRows}

\* Panel::get_ray_intersection: the point where the ray s1 meets the panel
get_ray_intersection(panel, s1) == <<"intersection", panel, s1>>

\* Detector::operator[]: bounds-checked access to panel number index
InRange(det, index) == index < Len(det)

PanelAt(det, index) == det[index + 1]

RECURSIVE Intersections_row_as_panel(_, _, _, _)
Intersections_row_as_panel(self, det, result, i) ==
  IF i > Len(self.s1) THEN [ok |-> TRUE, result |-> result, self |-> self]
  ELSE IF ~InRange(det, i - 1)
  THEN [ok |-> FALSE, result |-> <<>>, self |-> self]
  ELSE Intersections_row_as_panel(
         self, det,
         Append(result, get_ray_intersection(PanelAt(det, i - 1), self.s1[i])),
         i + 1)

\* the loop from row i on, and the return
RECURSIVE Intersections(_, _, _, _)
Intersections(self, det, result, i) ==
  IF i > Len(self.s1) THEN [ok |-> TRUE, result |-> result, self |-> self]
  ELSE IF ~InRange(det, self.panel[i])
  THEN [ok |-> FALSE, result |-> <<>>, self |-> self]
  ELSE Intersections(
         self, det,
         Append(result,
                get_ray_intersection(PanelAt(det, self.panel[i]), self.s1[i])),
         i + 1)

compute_ray_intersections(self, det) == Intersections(self, det, <<>>, 1)

NoRay == [called |-> FALSE, ok |-> FALSE, result |-> <<>>, before |-> [s1 |-> <<>>, panel |-> <<>>]]

RayIdle ==
  /\ rayTable = [s1 |-> <<>>, panel |-> <<>>]
  /\ detector = <<>>
  /\ ray = NoRay

RayStart ==
  /\ rayTable \in RayTables
  /\ detector \in Detectors
  /\ ray = NoRay

ComputeRayIntersections ==
  LET r == compute_ray_intersections(rayTable, detector) IN
    /\ ray' = [called |-> TRUE, ok |-> r.ok, result |-> r.result,
               before |-> rayTable]
    /\ rayTable' = r.self
    /\ UNCHANGED <<detector, flagVars, makeVars, digitVars>>

----------------------------------------------------------------------------
(* get_digits: snprintf("%g") and the decoding loop *)

\* characters, as the codes the loop computes with
CharNul == 0
CharSpace == 32
CharPlus == 43
CharComma == 44
CharMinus == 45
CharPoint == 46
CharZero == 48
CharLowerA == 97
CharLowerE == 101
CharLowerF == 102
CharLowerI == 105
CharLowerN == 110

BufSize == 15       \* char asc_str[15], int dgt_num[15]
ScanLen == 13       \* for (int i = 0; i < 13; i++)
Precision == 6      \* the precision of "%g"

\* A number is a NaN, an infinity, a zero or sign * d1.d2...dk * 10^exp10 with
\* d1 # 0: the exact decimal expansion of the double.
Finite(neg, digs, e) == [class |-> "finite", neg |-> neg, digs |-> digs, exp10 |-> e]

Special(class, neg) == [class |-> class, neg |-> neg, digs |-> <<>>, exp10 |-> 0]

GenDigits == {1, 9}

Exponents == {-100, -5, -4, -1, 0, 5, 6, 100}

Number_3_14 == Finite(FALSE, <<3, 1, 4>>, 0)

Number_1e5 == Finite(FALSE, <<1>>, 5)

Number_1e6 == Finite(FALSE, <<1>>, 6)

ExampleNumbers ==
  {Number_3_14, Number_1e5, Number_1e6,
   Finite(FALSE, <<1, 0, 1>>, 2),
   Finite(TRUE, <<1, 0, 0, 0, 0, 0, 5>>, 5),
   Finite(FALSE, <<1, 0, 0, 0, 0, 1, 5>>, 5),
   Finite(FALSE, <<1, 0, 0, 0, 0, 0, 5, 1>>, 0)}

Numbers ==
  {Finite(neg, digs, e) :
     neg \in BOOLEAN, digs \in SeqsUpTo(GenDigits, MaxDigits) \ {<<>>},
     e \in Exponents}
  \cup {Special(c, neg) : c \in {"zero", "inf", "nan"}, neg \in BOOLEAN}
  \cup ExampleNumbers

Pow10(n) == 10 ^ n

\* the first Precision digits, as an integer
Leading(digs) ==
  LET D == [i \in 1 .. Precision |-> IF i <= Len(digs) THEN digs[i] ELSE 0]
      RECURSIVE Sum(_)
      Sum(i) == IF i = 0 THEN 0 ELSE 10 * Sum(i - 1) + D[i]
  IN Sum(Precision)

\* round to nearest, ties to even, on the digits after the first Precision
RoundsUp(digs) ==
  /\ Len(digs) > Precision
  /\ \/ digs[Precision + 1] > 5
     \/ /\ digs[Precision + 1] = 5
        /\ \/ \E j \in (Precision + 2) .. Len(digs) : digs[j] # 0
           \/ digs[Precision] % 2 = 1

\* the number rounded to Precision significant digits: mantissa and exponent
Rounded(x) ==
  LET m == Leading(x.digs) + (IF RoundsUp(x.digs) THEN 1 ELSE 0)
  IN IF m = Pow10(Precision)
     THEN [mant |-> Pow10(Precision - 1), exp10 |-> x.exp10 + 1]
     ELSE [mant |-> m, exp10 |-> x.exp10]

DigitAt(mant, i) == (mant \div Pow10(Precision - i)) % 10

\* significant digits left when the trailing zeros are removed
SigLen(mant) ==
  CHOOSE n \in 1 .. Precision :
    /\ DigitAt(mant, n) # 0
    /\ \A j \in (n + 1) .. Precision : DigitAt(mant, j) = 0

DigitChars(mant, from, to) ==
  [i \in 1 .. (to - from + 1) |-> CharZero + DigitAt(mant, from + i - 1)]

Zeros(n) == [i \in 1 .. n |-> CharZero]

\* the exponent of style e: at least two digits
ExpChars(a) ==
  IF a < 100
  THEN <<CharZero + (a \div 10), CharZero + (a % 10)>>
  ELSE <<CharZero + (a \div 100), CharZero + ((a \div 10) % 10), CharZero + (a % 10)>>

StyleF(mant, X, point) ==
  LET n == SigLen(mant) IN
    IF X >= 0
    THEN DigitChars(mant, 1, X + 1)
         \o (IF n > X + 1 THEN <<point>> \o DigitChars(mant, X + 2, n) ELSE <<>>)
    ELSE <<CharZero, point>> \o Zeros(-X - 1) \o DigitChars(mant, 1, n)

StyleE(mant, X, point) ==
  LET n == SigLen(mant) IN
    DigitChars(mant, 1, 1)
    \o (IF n > 1 THEN <<point>> \o DigitChars(mant, 2, n) ELSE <<>>)
    \o <<CharLowerE, IF X < 0 THEN CharMinus ELSE CharPlus>>
    \o ExpChars(IF X < 0 THEN -X ELSE X)

FormatG_style_e_from_5(x, point) ==
  (IF x.neg THEN <<CharMinus>> ELSE <<>>) \o
  (CASE x.class = "nan" -> <<CharLowerN, CharLowerA, CharLowerN>>
     [] x.class = "inf" -> <<CharLowerI, CharLowerN, CharLowerF>>
     [] x.class = "zero" -> <<CharZero>>
     [] x.class = "finite" ->
          LET r == Rounded(x) IN
            IF r.exp10 < -4 \/ r.exp10 >= Precision - 1
            THEN StyleE(r.mant, r.exp10, point)
            ELSE StyleF(r.mant, r.exp10, point))

\* the text "%g" produces: style e when the exponent X of the rounded number
\* is < -4 or >= Precision, style f otherwise, trailing zeros removed
FormatG(x, point) ==
  (IF x.neg THEN <<CharMinus>> ELSE <<>>) \o
  (CASE x.class = "nan" -> <<CharLowerN, CharLowerA, CharLowerN>>
     [] x.class = "inf" -> <<CharLowerI, CharLowerN, CharLowerF>>
     [] x.class = "zero" -> <<CharZero>>
     [] x.class = "finite" ->
          LET r == Rounded(x) IN
            IF r.exp10 < -4 \/ r.exp10 >= Precision
            THEN StyleE(r.mant, r.exp10, point)
            ELSE StyleF(r.mant, r.exp10, point))

\* snprintf(buf, size, text): at most size - 1 characters and a terminator;
\* the bytes after the terminator keep what they held
Snprintf(buf, size, text) ==
  LET n == IF Len(text) < size - 1 THEN Len(text) ELSE size - 1 IN
    [i \in 0 .. (BufSize - 1) |->
       IF i < n THEN text[i + 1] ELSE IF i = n THEN CharNul ELSE buf[i]]

FifteenSpaces == [i \in 1 .. 15 |-> CharSpace]

\* one pass of the loop body for slot i; st = [dgt_num, err_cod, end_reached]
DecodeSlot_e_as_plus(st, str, i) ==
  LET c == str[i]
      d == c - CharZero
  IN IF d >= 0 /\ d <= 9 THEN [st EXCEPT !.dgt_num[i] = d]
     ELSE IF c = CharPoint THEN [st EXCEPT !.dgt_num[i] = 10]
     ELSE IF c = CharLowerE THEN [st EXCEPT !.dgt_num[i] = 12]
     ELSE IF c = CharPlus THEN [st EXCEPT !.dgt_num[i] = 12]
     ELSE IF c = CharMinus THEN [st EXCEPT !.dgt_num[i] = 13]
     ELSE IF c = CharSpace THEN [st EXCEPT !.dgt_num[i] = 14]
     ELSE IF c = CharNul THEN [st EXCEPT !.dgt_num[i] = 15, !.end_reached = TRUE]
     ELSE IF st.end_reached = FALSE
          THEN [st EXCEPT !.dgt_num[i] = d, !.err_cod = 1]
          ELSE [st EXCEPT !.dgt_num[i] = d]

DecodeSlot(st, str, i) ==
  LET c == str[i]
      d == c - CharZero
  IN IF d >= 0 /\ d <= 9 THEN [st EXCEPT !.dgt_num[i] = d]
     ELSE IF c = CharPoint THEN [st EXCEPT !.dgt_num[i] = 10]
     ELSE IF c = CharLowerE THEN [st EXCEPT !.dgt_num[i] = 11]
     ELSE IF c = CharPlus THEN [st EXCEPT !.dgt_num[i] = 12]
     ELSE IF c = CharMinus THEN [st EXCEPT !.dgt_num[i] = 13]
     ELSE IF c = CharSpace THEN [st EXCEPT !.dgt_num[i] = 14]
     ELSE IF c = CharNul THEN [st EXCEPT !.dgt_num[i] = 15, !.end_reached = TRUE]
     ELSE IF st.end_reached = FALSE
          THEN [st EXCEPT !.dgt_num[i] = d, !.err_cod = 1]
          ELSE [st EXCEPT !.dgt_num[i] = d]

RECURSIVE DecodeFrom_whole_buffer(_, _, _)
DecodeFrom_whole_buffer(st, str, i) ==
  IF i >= BufSize THEN st
  ELSE DecodeFrom_whole_buffer(DecodeSlot(st, str, i), str, i + 1)

\* the loop from slot i on
RECURSIVE DecodeFrom(_, _, _)
DecodeFrom(st, str, i) ==
  IF i >= ScanLen THEN st ELSE DecodeFrom(DecodeSlot(st, str, i), str, i + 1)

Finish_keep_first_error(st) ==
  IF st.end_reached = FALSE /\ st.err_cod = 0 THEN [st EXCEPT !.err_cod = 2] ELSE st

\* the check after the loop
Finish(st) ==
  IF st.end_reached = FALSE THEN [st EXCEPT !.err_cod = 2] ELSE st

\* get_digits(nm, dgt_num) in a locale with the given decimal point
get_digits(x, buffer, point) ==
  LET blank == Snprintf([i \in 0 .. (BufSize - 1) |-> CharNul], BufSize, FifteenSpaces)
      str == Snprintf(blank, BufSize, FormatG(x, point))
      st == Finish(DecodeFrom([dgt_num |-> buffer, err_cod |-> 0,
                               end_reached |-> FALSE], str, 0))
  IN [asc_str |-> str, dgt_num |-> st.dgt_num, err_cod |-> st.err_cod]

\* what the caller's buffer holds before the call
PriorFills == {7, 99}

DigitsIdle ==
  /\ nm = Special("zero", FALSE)
  /\ decimal_point = CharPoint
  /\ asc_str = [i \in 0 .. (BufSize - 1) |-> CharNul]
  /\ dgt_num = [i \in 0 .. (BufSize - 1) |-> 0]
  /\ err_cod = 0
  /\ returned = FALSE

DigitsStart ==
  /\ nm \in Numbers
  /\ decimal_point \in {CharPoint, CharComma}
  /\ asc_str = [i \in 0 .. (BufSize - 1) |-> CharNul]
  /\ \E q \in PriorFills : dgt_num = [i \in 0 .. (BufSize - 1) |-> q]
  /\ err_cod = 0
  /\ returned = FALSE

GetDigits ==
  /\ ~returned
  /\ LET r == get_digits(nm, dgt_num, decimal_point) IN
       /\ asc_str' = r.asc_str
       /\ dgt_num' = r.dgt_num
       /\ err_cod' = r.err_cod
  /\ returned' = TRUE
  /\ UNCHANGED <<nm, decimal_point, flagVars, makeVars, rayVars>>

----------------------------------------------------------------------------
(* Specifications: one per part of the file *)

Init == FlagInit /\ MakeIdle /\ RayIdle /\ DigitsIdle

Next == GetFlags \/ SetFlags \/ UnsetFlags

Spec == Init /\ [][Next]_vars

MakeInit == FlagIdle /\ MakeStart /\ RayIdle /\ DigitsIdle

MakeNext == MakeFromObservationAndShoebox

SpecMake == MakeInit /\ [][MakeNext]_vars

RayInit == FlagIdle /\ MakeIdle /\ RayStart /\ DigitsIdle

RayNext == ComputeRayIntersections

SpecRay == RayInit /\ [][RayNext]_vars

DigitsInit == FlagIdle /\ MakeIdle /\ RayIdle /\ DigitsStart

DigitsNext == GetDigits

SpecDigits == DigitsInit /\ [][DigitsNext]_vars

NamedInit == NamedStart /\ MakeIdle /\ RayIdle /\ DigitsIdle

NamedNext == SetNamedFlag \/ UnsetNamedFlag

SpecNamed == NamedInit /\ [][NamedNext]_vars

----------------------------------------------------------------------------
(* Claims about the flag operations *)

Bit(x, k) == (x \div Pow2(k)) % 2

SetDone == call.op = "set_flags" /\ call.ok

UnsetDone == call.op = "unset_flags" /\ call.ok

\* C1 (as stated): after set_flags(mask, value), get_flags(value) is true for
\* exactly the rows where mask is true: true for every masked row and false for
\* every unmasked row.
C1_GetFlagsExactlyMaskedRows ==
  SetDone =>
    \A i \in 1 .. Len(flags) : get_flags(flags, call.value)[i] = call.mask[i]

\* C1 (amended): after set_flags(mask, value), get_flags(value) is true for
\* every masked row, and for every unmasked row it answers what it answered
\* before the call.
C1_GetFlagsAfterSetFlags ==
  SetDone =>
    \A i \in 1 .. Len(flags) :
      IF call.mask[i]
      THEN get_flags(flags, call.value)[i]
      ELSE get_flags(flags, call.value)[i] = get_flags(call.before, call.value)[i]

C1_Witness ==
  /\ SetDone
  /\ call.value # 0
  /\ \E i \in 1 .. Len(flags) :
       call.mask[i] /\ ~get_flags(call.before, call.value)[i]
  /\ \E i \in 1 .. Len(flags) : ~call.mask[i]

\* C2 (as stated): set_flags(mask, v) followed by unset_flags(mask, v) leaves
\* the flags of every masked row equal to their value before the two calls.
C2_RoundTripRestoresOriginal ==
  roundtrip.phase = "unset" =>
    \A i \in 1 .. Len(flags) :
      roundtrip.mask[i] => flags[i] = roundtrip.original[i]

\* C2 (amended): set_flags(mask, v) followed by unset_flags(mask, v) leaves
\* every masked row with its flags from before the two calls minus the bits of
\* v, which is the value from before the two calls exactly when the row had no
\* bit of v set.
C2_RoundTripClearsValue ==
  roundtrip.phase = "unset" =>
    \A i \in 1 .. Len(flags) :
      roundtrip.mask[i] =>
        /\ \A k \in 0 .. (FlagBits - 1) :
             Bit(flags[i], k) = IF Bit(roundtrip.value, k) = 1
                                THEN 0
                                ELSE Bit(roundtrip.original[i], k)
        /\ (flags[i] = roundtrip.original[i])
             <=> (BitAnd(roundtrip.original[i], roundtrip.value) = 0)

C2_Witness ==
  /\ roundtrip.phase = "unset"
  /\ roundtrip.value # 0
  /\ \E i \in 1 .. Len(flags) :
       /\ roundtrip.mask[i]
       /\ roundtrip.original[i] # 0
       /\ flags[i] = roundtrip.original[i]
  /\ \E i \in 1 .. Len(flags) :
       roundtrip.mask[i] /\ flags[i] # roundtrip.original[i]

\* C8: unset_flags(mask, v) leaves every masked row with every bit of v
\* cleared and every bit outside v unchanged, and every unmasked row unchanged.
C8_UnsetFlagsClearsExactlyValue ==
  UnsetDone =>
    \A i \in 1 .. Len(flags) :
      IF call.mask[i]
      THEN \A k \in 0 .. (FlagBits - 1) :
             Bit(flags[i], k) = IF Bit(call.value, k) = 1
                                THEN 0
                                ELSE Bit(call.before[i], k)
      ELSE flags[i] = call.before[i]

C8_Witness ==
  /\ UnsetDone
  /\ \E i \in 1 .. Len(flags) :
       /\ call.mask[i]
       /\ BitAnd(call.before[i], call.value) # 0
       /\ flags[i] # 0
  /\ \E i \in 1 .. Len(flags) :
       ~call.mask[i] /\ BitAnd(call.before[i], call.value) # 0

\* C10: when the mask length differs from the row count, set_flags and
\* unset_flags fail and the flags of every row are as they were.
C10_LengthMismatchFailsUntouched ==
  (call.op \in {"set_flags", "unset_flags"} /\ Len(call.mask) # Len(call.before))
    => (~call.ok /\ flags = call.before)

C10_Witness ==
  /\ call.op = "set_flags"
  /\ ~call.ok
  /\ Len(call.before) > Len(call.mask)
  /\ \E i \in 1 .. Len(call.mask) :
       call.mask[i] /\ BitOr(call.before[i], call.value) # call.before[i]

\* C12: get_flags(value) returns one boolean per row, entry i being true if
\* and only if every bit of value is set in flags[i], for any value (0 and
\* values of several bits included), and it changes no row's flags.
C12_GetFlagsAllBitsSet ==
  call.op = "get_flags" =>
    /\ call.ok
    /\ flags = call.before
    /\ Len(call.result) = Len(flags)
    /\ \A i \in 1 .. Len(flags) :
         call.result[i] <=>
           \A k \in 0 .. (FlagBits - 1) :
             Bit(call.value, k) = 1 => Bit(flags[i], k) = 1

C12_Witness ==
  /\ call.op = "get_flags"
  /\ call.value = AllBits
  /\ Len(flags) = 2
  /\ \E i \in 1 .. Len(flags) : call.result[i]
  /\ \E i \in 1 .. Len(flags) : ~call.result[i] /\ flags[i] # 0

\* C11: after any sequence of set_flags and unset_flags calls that pass only
\* the named flag a, get_flags(b) answers for every row as it did before the
\* sequence, for every named flag b other than a.
C11_OtherNamedFlagsKeepAnswers ==
  \A b \in NamedFlags \ {sequence.flag} :
    get_flags(flags, b) = get_flags(sequence.original, b)

C11_Witness ==
  /\ sequence.did_set
  /\ sequence.did_unset
  /\ \E i \in 1 .. Len(flags) :
       /\ flags[i] # sequence.original[i]
       /\ \E b \in NamedFlags \ {sequence.flag} : get_flags(sequence.original, b)[i]
       /\ \E b \in NamedFlags \ {sequence.flag} : ~get_flags(sequence.original, b)[i]

----------------------------------------------------------------------------
(* Claims about make_from_observation_and_shoebox *)

PanelsAgree ==
  /\ Len(made.o) = Len(made.s)
  /\ \A i \in 1 .. Len(made.o) : made.o[i].panel = made.s[i].panel

\* C6: for two input sequences of equal length N whose panel ids agree at
\* every index, the call returns a table of exactly N rows where, in every row
\* i, panel, xyzobs.px.value/variance, intensity.raw.value/variance and
\* intensity.cor.value/variance are the fields of observation i, bbox is the
\* bounding box of shoebox i, and the bbox inside shoebox[i] is the row's bbox.
C6_TableCopiesEveryPair ==
  (made.called /\ PanelsAgree) =>
    /\ made.ok
    /\ Cardinality(made.returned) = 1
    /\ \A t \in made.returned :
         /\ t.nrows = Len(made.o)
         /\ \A c \in DOMAIN t.columns : Len(t.columns[c]) = Len(made.o)
         /\ \A i \in 1 .. Len(made.o) :
              /\ t.columns["panel"][i] = made.o[i].panel
              /\ t.columns["xyzobs.px.value"][i] = made.o[i].centroid.px.position
              /\ t.columns["xyzobs.px.variance"][i] = made.o[i].centroid.px.std_err_sq
              /\ t.columns["intensity.raw.value"][i] = made.o[i].intensity.observed.value
              /\ t.columns["intensity.raw.variance"][i] = made.o[i].intensity.observed.variance
              /\ t.columns["intensity.cor.value"][i] = made.o[i].intensity.corrected.value
              /\ t.columns["intensity.cor.variance"][i] = made.o[i].intensity.corrected.variance
              /\ t.columns["bbox"][i] = made.s[i].bbox
              /\ t.columns["shoebox"][i].bbox = t.columns["bbox"][i]

C6_Witness ==
  /\ made.called
  /\ PanelsAgree
  /\ Len(made.o) = 2
  /\ made.o[1] # made.o[2]
  /\ made.s[1].bbox # made.s[2].bbox
  /\ made.o[1].panel # made.o[2].panel
  /\ made.ok

\* C7: if the two sequences differ in length, or the panel ids differ at any
\* index, the call fails and returns no table, not even one holding the rows
\* copied before the mismatch.
C7_MismatchReturnsNoTable ==
  (made.called /\ ~PanelsAgree) => (~made.ok /\ made.returned = {})

C7_Witness ==
  /\ made.called
  /\ Len(made.o) = 2
  /\ Len(made.s) = 2
  /\ made.o[1].panel = made.s[1].panel
  /\ made.o[2].panel # made.s[2].panel
  /\ ~made.ok

----------------------------------------------------------------------------
(* Claims about compute_ray_intersections *)

\* C9: compute_ray_intersections writes no column of the table and returns one
\* result per row, result i being the projection of row i's s1 on the detector
\* panel selected by row i's panel index; if a row's panel index is out of
\* range for the detector, the call fails instead of returning a result.
C9_RayIntersectionsPerRow ==
  ray.called =>
    /\ rayTable = ray.before
    /\ ray.ok =>
         /\ Len(ray.result) = Len(rayTable.s1)
         /\ \A i \in 1 .. Len(rayTable.s1) :
              /\ rayTable.panel[i] < Len(detector)
              /\ ray.result[i] =
                   get_ray_intersection(detector[rayTable.panel[i] + 1],
                                        rayTable.s1[i])
    /\ (\E i \in 1 .. Len(rayTable.panel) : rayTable.panel[i] >= Len(detector))
         => (~ray.ok /\ ray.result = <<>>)

C9_Witness ==
  /\ ray.called
  /\ ray.ok
  /\ Len(rayTable.s1) = 2
  /\ rayTable.panel[1] = 1
  /\ rayTable.panel[2] = 0
  /\ rayTable.s1[1] # rayTable.s1[2]

----------------------------------------------------------------------------
(* Claims about get_digits *)

\* the text snprintf left in asc_str: the characters before the terminator
TextLen == Len(FormatG(nm, decimal_point))

TextChar(i) == FormatG(nm, decimal_point)[i + 1]

RecognizedChars ==
  {CharZero + d : d \in 0 .. 9}
    \cup {CharPoint, CharLowerE, CharPlus, CharMinus, CharSpace}

\* the encoding table: '0'-'9' 0-9, '.' 10, 'e' 11, '+' 12, '-' 13, ' ' 14
Glyph(c) ==
  CASE c = CharPoint -> 10
    [] c = CharLowerE -> 11
    [] c = CharPlus -> 12
    [] c = CharMinus -> 13
    [] c = CharSpace -> 14
    [] OTHER -> c - CharZero

Slots(from, to) == [i \in 1 .. (to - from + 1) |-> dgt_num[from + i - 1]]

\* C3: once get_digits has returned, each of the slots 0..12 holds a glyph
\* index in 0..15, whatever the status is.
C3_SlotsHoldGlyphIndices ==
  returned => \A i \in 0 .. (ScanLen - 1) : dgt_num[i] \in 0 .. 15

\* C4: the status depends on the formatted text only: 2 when no terminator is
\* among the 13 scanned characters (the text has 13 or more characters), even
\* if an unrecognized character was seen; otherwise 1 when a character outside
\* the recognized set comes before the terminator; otherwise 0.
C4_StatusFromText ==
  returned =>
    /\ (\A i \in 0 .. (ScanLen - 1) : asc_str[i] # CharNul) <=> (TextLen >= ScanLen)
    /\ err_cod =
         IF TextLen >= ScanLen THEN 2
         ELSE IF \E i \in 0 .. (TextLen - 1) : TextChar(i) \notin RecognizedChars
              THEN 1
              ELSE 0

C4_Witness ==
  /\ returned
  /\ err_cod = 2
  /\ TextLen >= ScanLen
  /\ \E i \in 0 .. (ScanLen - 1) : TextChar(i) \notin RecognizedChars

C5_DecodesRecognizedText ==
  (/\ returned
   /\ TextLen <= 12
   /\ \A i \in 0 .. (TextLen - 1) : TextChar(i) \in RecognizedChars)
    => /\ err_cod = 0
       /\ \A i \in 0 .. (TextLen - 1) : dgt_num[i] = Glyph(TextChar(i))
       /\ dgt_num[TextLen] = 15
       /\ \A i \in (TextLen + 1) .. (ScanLen - 1) : dgt_num[i] = 14

C5_Example_3_14 ==
  (returned /\ nm = Number_3_14 /\ decimal_point = CharPoint)
    => (err_cod = 0 /\ Slots(0, 12) = <<3, 10, 1, 4, 15, 14, 14, 14, 14, 14, 14, 14, 14>>)

\* C5 (as stated): a text of at most 12 recognized characters gives status 0,
\* the glyph index of each character, 15 at the terminator and 14 in the slots
\* after it up to slot 12; 3.14 gives [3,10,1,4,15,14,...] and 1e+05 gives
\* [1,11,12,0,5,15,...].
C5_DecodeWithExample1e05 ==
  /\ C5_DecodesRecognizedText
  /\ C5_Example_3_14
  /\ (returned /\ nm = Number_1e5 /\ decimal_point = CharPoint)
       => (err_cod = 0 /\ Slots(0, 5) = <<1, 11, 12, 0, 5, 15>>)

\* C5 (amended): as stated, except for the second example: 1e+06 gives
\* [1,11,12,0,6,15,14,...], while 1e+05 is formatted as 100000 and gives
\* [1,0,0,0,0,0,15,14,...].
C5_DecodeWithExample1e06 ==
  /\ C5_DecodesRecognizedText
  /\ C5_Example_3_14
  /\ (returned /\ nm = Number_1e6 /\ decimal_point = CharPoint)
       => (err_cod = 0
           /\ Slots(0, 12) = <<1, 11, 12, 0, 6, 15, 14, 14, 14, 14, 14, 14, 14>>)
  /\ (returned /\ nm = Number_1e5 /\ decimal_point = CharPoint)
       => (err_cod = 0
           /\ Slots(0, 12) = <<1, 0, 0, 0, 0, 0, 15, 14, 14, 14, 14, 14, 14>>)

C5_Witness ==
  /\ returned
  /\ TextLen < 12
  /\ \A i \in 0 .. (TextLen - 1) : TextChar(i) \in RecognizedChars
  /\ \A c \in {CharPoint, CharLowerE, CharMinus, CharZero} :
       \E i \in 0 .. (TextLen - 1) : TextChar(i) = c
  /\ err_cod = 0

\* C13: get_digits never writes slots 13 and 14 of the caller's buffer: after
\* the call they hold what they held before it, for every input number.
C13_LastTwoSlotsKept ==
  [][dgt_num'[13] = dgt_num[13] /\ dgt_num'[14] = dgt_num[14]]_vars

C13_Witness ==
  /\ returned
  /\ err_cod = 0
  /\ dgt_num[12] = 14
  /\ dgt_num[13] = 99
  /\ dgt_num[14] = 99

====
